---- MODULE Spec2Model ----
(***************************************************************************)
(* Model of Task_01.py: the contact directory (Field, Name, Phone,        *)
(* Birthday, Record, AddressBook), the upcoming-birthdays report, the      *)
(* pickle persistence and the command loop of main().                      *)
(*                                                                         *)
(* Python values are modelled as follows.                                  *)
(*   str            a sequence of one-character strings                    *)
(*   object         a record: cls and one field per attribute the          *)
(*                  constructor assigned (an attribute never assigned is   *)
(*                  missing from the record)                               *)
(*   None           the record None                                        *)
(*   date text      a str whose contents are the tokens of the text        *)
(*   dict           a sequence of [key, rec] entries in insertion order    *)
(*   call result    [exc |-> exception or NoExc, val |-> value]            *)
(***************************************************************************)
EXTENDS Integers, Sequences, FiniteSets, TLC

VARIABLES data, op, ret, exc, today, file, pc

vars == <<data, op, ret, exc, today, file, pc>>

(***************************************************************************)
(* Bounds of the model.                                                    *)
(***************************************************************************)
MaxStrLen == 11    \* longest run of digits of a raw string given to Phone
MaxTail == 2       \* longest arbitrary tail of a raw string given to Phone
MaxPhones == 3     \* most phones the records of the directory hold in all
MaxNumbers == 2    \* most numbers given to one Record(...) / add command
MaxRecords == 2    \* most records of a directory drawn for a pure function

(***************************************************************************)
(* Python values.                                                          *)
(***************************************************************************)
None == [cls |-> "NoneType"]

NoExc == [type |-> "None", msg |-> ""]

ValueError(m) == [type |-> "ValueError", msg |-> m]

KeyError(m) == [type |-> "KeyError", msg |-> m]

AttributeError(m) == [type |-> "AttributeError", msg |-> m]

Return(v) == [exc |-> NoExc, val |-> v]

Raise(e) == [exc |-> e, val |-> None]

PyStr(s) == [cls |-> "str", v |-> s]

PyList(l) == [cls |-> "list", v |-> l]

Rep(c, n) == [i \in 1..n |-> c]

RECURSIVE SeqsUpTo(_, _)
SeqsUpTo(S, n) ==
    IF n = 0 THEN {<<>>}
    ELSE LET shorter == SeqsUpTo(S, n - 1)
         IN  shorter \cup {Append(s, c) : s \in shorter, c \in S}

(***************************************************************************)
(* str.isdigit(): true of a non-empty string all of whose characters are   *)
(* digits; Python counts the ASCII digits and also other Unicode digits    *)
(* (U+00B2 SUPERSCRIPT TWO, U+0663 ARABIC-INDIC DIGIT THREE, ...).         *)
(***************************************************************************)
AsciiDigits == {"0", "1", "2", "3", "4", "5", "6", "7", "8", "9"}

UnicodeDigits == {"U+00B2", "U+0663"}

isdigit(s) == Len(s) > 0 /\ \A i \in 1..Len(s) : s[i] \in AsciiDigits \cup UnicodeDigits

PhoneLen == 10

(***************************************************************************)
(* Field, Name, Phone.  Name and Phone override __init__ without calling   *)
(* Field.__init__, so neither has the attribute value.                     *)
(***************************************************************************)
Field__str__(self) ==
    IF "value" \in DOMAIN self
    THEN Return(PyStr(self.value))
    ELSE Raise(AttributeError("object has no attribute 'value'"))

Name__init__(name) == Return([cls |-> "Name", name |-> name])

Phone__init__(number) ==
    IF Len(number) # PhoneLen \/ ~isdigit(number)
    THEN Raise(ValueError("Phone number must be 10 digits."))
    ELSE Return([cls |-> "Phone", number |-> number])

(***************************************************************************)
(* datetime: the proleptic Gregorian calendar as the code uses it.  A date *)
(* is [year, month, day]; a date text is the str of its tokens, so         *)
(* "15.06.1990" is Text(15, ".", 6, ".", 1990) and "2024.06.17" is         *)
(* Text(2024, ".", 6, ".", 17).                                            *)
(***************************************************************************)
IsLeap(y) == y % 4 = 0 /\ (y % 100 # 0 \/ y % 400 = 0)

DaysInMonth(y, m) ==
    IF m = 2 THEN (IF IsLeap(y) THEN 29 ELSE 28)
    ELSE IF m \in {4, 6, 9, 11} THEN 30 ELSE 31

Date(y, m, d) == [year |-> y, month |-> m, day |-> d]

DaysBeforeYear(y) == (y - 1) * 365 + (y - 1) \div 4 - (y - 1) \div 100 + (y - 1) \div 400

RECURSIVE DaysBeforeMonth(_, _)
DaysBeforeMonth(y, m) ==
    IF m = 1 THEN 0 ELSE DaysBeforeMonth(y, m - 1) + DaysInMonth(y, m - 1)

toordinal(d) == DaysBeforeYear(d.year) + DaysBeforeMonth(d.year, d.month) + d.day

\* date.weekday(): Monday is 0, Saturday 5, Sunday 6
weekday(d) == (toordinal(d) + 6) % 7

NextDay(d) ==
    IF d.day < DaysInMonth(d.year, d.month) THEN Date(d.year, d.month, d.day + 1)
    ELSE IF d.month < 12 THEN Date(d.year, d.month + 1, 1)
    ELSE Date(d.year + 1, 1, 1)

\* date + timedelta(days=n), n >= 0
RECURSIVE AddDays(_, _)
AddDays(d, n) == IF n = 0 THEN d ELSE AddDays(NextDay(d), n - 1)

\* date.replace(year=y)
ReplaceYear(d, y) ==
    IF d.day > DaysInMonth(y, d.month)
    THEN Raise(ValueError("day is out of range for month"))
    ELSE Return(Date(y, d.month, d.day))

Text(a, s1, b, s2, c) == PyStr(<<a, s1, b, s2, c>>)

\* datetime.strptime(text, "%d.%m.%Y"): day, month and year in range and
\* separated by full stops
strptime(text) ==
    LET t == text.v
    IN  IF /\ t[2] = "." /\ t[4] = "."
           /\ t[5] \in 1..9999
           /\ t[3] \in 1..12
           /\ t[1] \in 1..DaysInMonth(t[5], t[3])
        THEN Return(Date(t[5], t[3], t[1]))
        ELSE Raise(ValueError("time data does not match format"))

\* date.strftime("%Y.%m.%d")
strftime(d) == Text(d.year, ".", d.month, ".", d.day)

Birthday__init__(value) ==
    LET parsed == strptime(value)
    IN  IF parsed.exc # NoExc
        THEN Raise(ValueError("Invalid date format. Use DD.MM.YYYY"))
        ELSE Return([cls |-> "Birthday", date |-> parsed.val, value |-> value])

(***************************************************************************)
(* Record.  A method returns [exc, val, self]: the exception it raised or  *)
(* NoExc, its return value, and the object after the call.                 *)
(***************************************************************************)
Done(self) == [exc |-> NoExc, val |-> None, self |-> self]

Fail(e, self) == [exc |-> e, val |-> None, self |-> self]

Record__init__(name, phones, birthday) ==
    LET made == [i \in 1..Len(phones) |-> Phone__init__(phones[i])]
        bad == {i \in 1..Len(phones) : made[i].exc # NoExc}
        first == CHOOSE i \in bad : \A j \in bad : i <= j
        bday == IF birthday # None THEN Birthday__init__(birthday) ELSE Return(None)
    IN  IF bad # {} THEN Raise(made[first].exc)
        ELSE IF bday.exc # NoExc THEN Raise(bday.exc)
        ELSE Return([cls |-> "Record",
                     name |-> Name__init__(name).val,
                     phones |-> [i \in 1..Len(phones) |-> made[i].val],
                     birthday |-> bday.val])

Record_add_phone(self, phone) ==
    LET p == Phone__init__(phone)
    IN  IF p.exc # NoExc THEN Fail(p.exc, self)
        ELSE Done([self EXCEPT !.phones = Append(@, p.val)])

RemoveFirstMatch(self, phone) ==
    LET hits == {i \in 1..Len(self.phones) : self.phones[i].number = phone}
        first == CHOOSE i \in hits : \A j \in hits : i <= j
    IN  IF hits = {} THEN Done(self)
        ELSE Done([self EXCEPT !.phones =
                     SubSeq(@, 1, first - 1) \o SubSeq(@, first + 1, Len(@))])

Record_remove_phone(self, phone) ==
    Done([self EXCEPT !.phones = SelectSeq(@, LAMBDA p : p.number # phone)])

EditEveryMatch(self, old_phone, new_phone) ==
    IF \A i \in 1..Len(self.phones) : self.phones[i].number # old_phone
    THEN Fail(ValueError("Phone not found for contact."), self)
    ELSE Done([self EXCEPT !.phones = [i \in 1..Len(@) |->
                 IF @[i].number = old_phone THEN [@[i] EXCEPT !.number = new_phone]
                 ELSE @[i]]])

Record_edit_phone(self, old_phone, new_phone) ==
    LET hits == {i \in 1..Len(self.phones) : self.phones[i].number = old_phone}
        first == CHOOSE i \in hits : \A j \in hits : i <= j
    IN  IF hits = {} THEN Fail(ValueError("Phone not found for contact."), self)
        ELSE Done([self EXCEPT !.phones[first].number = new_phone])

Record_find_phone(self, phone) ==
    LET hits == {i \in 1..Len(self.phones) : self.phones[i].number = phone}
        first == CHOOSE i \in hits : \A j \in hits : i <= j
    IN  IF hits = {} THEN None ELSE self.phones[first]

Record_add_birthday(self, birthday) ==
    LET b == Birthday__init__(birthday)
    IN  IF b.exc # NoExc THEN Fail(b.exc, self)
        ELSE Done([self EXCEPT !.birthday = b.val])

(***************************************************************************)
(* AddressBook(UserDict): self.data is a dict, which keeps insertion       *)
(* order; assigning to a key already present keeps the key's position.     *)
(***************************************************************************)
Keys(d) == {d[i].key : i \in 1..Len(d)}

IndexOf(d, k) == CHOOSE i \in 1..Len(d) : d[i].key = k

DictGet(d, k) == d[IndexOf(d, k)].rec

DictSet(d, k, v) ==
    IF k \in Keys(d) THEN [d EXCEPT ![IndexOf(d, k)].rec = v]
    ELSE Append(d, [key |-> k, rec |-> v])

DictDel(d, k) == SelectSeq(d, LAMBDA e : e.key # k)

AddressBook_add_record(self, record) == Done(DictSet(self, record.name.name, record))

AddressBook_delete_record(self, name) ==
    IF name \in Keys(self) THEN Done(DictDel(self, name))
    ELSE Fail(KeyError(name), self)

AddressBook_find_record(self, name) ==
    IF name \in Keys(self) THEN DictGet(self, name) ELSE None

\* what the three delegating methods do with the record method's outcome:
\* the record is mutated in place, an exception propagates
Delegate(self, name, r) == [exc |-> r.exc, val |-> r.val, self |-> DictSet(self, name, r.self)]

\* two slips of add_phone: replacing the record found, and creating the record
\* before the phone is validated
AddPhoneReplaces(self, name, phone) ==
    LET made == Record__init__(name, <<phone>>, None)
    IN  IF made.exc # NoExc THEN Fail(made.exc, self)
        ELSE AddressBook_add_record(self, made.val)

AddPhoneCreatesFirst(self, name, phone) ==
    LET book == IF name \in Keys(self) THEN self
                ELSE AddressBook_add_record(self, Record__init__(name, <<>>, None).val).self
    IN  Delegate(book, name, Record_add_phone(DictGet(book, name), phone))

AddressBook_add_phone(self, name, phone) ==
    LET record == AddressBook_find_record(self, name)
        made == Record__init__(name, <<phone>>, None)
    IN  IF record # None THEN Delegate(self, name, Record_add_phone(record, phone))
        ELSE IF made.exc # NoExc THEN Fail(made.exc, self)
        ELSE AddressBook_add_record(self, made.val)

AddressBook_delete_phone(self, name, phone) ==
    LET record == AddressBook_find_record(self, name)
    IN  IF record # None THEN Delegate(self, name, Record_remove_phone(record, phone))
        ELSE Fail(KeyError("Contact not found in the address book."), self)

AddressBook_change_phone(self, name, old_phone, new_phone) ==
    LET record == AddressBook_find_record(self, name)
    IN  IF record # None
        THEN Delegate(self, name, Record_edit_phone(record, old_phone, new_phone))
        ELSE Fail(KeyError("Contact not found in the address book."), self)

AddressBook_add_birthday(self, name, birthday) ==
    LET record == AddressBook_find_record(self, name)
    IN  IF record # None THEN Delegate(self, name, Record_add_birthday(record, birthday))
        ELSE Fail(KeyError("Contact not found in the address book."), self)

(***************************************************************************)
(* get_upcoming_birthdays(address_book, days) with the clock reading       *)
(* today.  An exception raised for one record ends the whole call.         *)
(***************************************************************************)
WeekendShift(d) ==
    IF weekday(d) = 5 THEN AddDays(d, 2)
    ELSE IF weekday(d) = 6 THEN AddDays(d, 1)
    ELSE d

\* lines 154-171: the entries (none or one) one record with a birthday adds
RecordEntries(record, days, now) ==
    LET birthday == record.birthday.date
        this_year == ReplaceYear(birthday, now.year)
        rolled == IF toordinal(this_year.val) < toordinal(now)
                  THEN ReplaceYear(this_year.val, now.year + 1)
                  ELSE this_year
        days_until_birthday == toordinal(rolled.val) - toordinal(now)
    IN  IF this_year.exc # NoExc THEN Raise(this_year.exc)
        ELSE IF rolled.exc # NoExc THEN Raise(rolled.exc)
        ELSE IF days_until_birthday <= days
        THEN Return(<<[name |-> record.name.name,
                       congratulation_date |-> strftime(WeekendShift(rolled.val))]>>)
        ELSE Return(<<>>)

RECURSIVE UpcomingFrom(_, _, _, _, _)
UpcomingFrom(book, i, days, now, upcoming_birthdays) ==
    IF i > Len(book) THEN Return(PyList(upcoming_birthdays))
    ELSE IF book[i].rec.birthday = None
    THEN UpcomingFrom(book, i + 1, days, now, upcoming_birthdays)
    ELSE LET e == RecordEntries(book[i].rec, days, now)
         IN  IF e.exc # NoExc THEN Raise(e.exc)
             ELSE UpcomingFrom(book, i + 1, days, now, upcoming_birthdays \o e.val)

get_upcoming_birthdays(address_book, days, now) ==
    UpcomingFrom(address_book, 1, days, now, <<>>)

(***************************************************************************)
(* pickle.  dump writes, for every object, its class and its __dict__      *)
(* (attribute name -> pickled value), and for the dict its items in        *)
(* order; load rebuilds each object from class and __dict__ without        *)
(* calling __init__, and the dict by setting the items in order.           *)
(***************************************************************************)
NoFile == [cls |-> "FileNotFound"]

Reduce(obj) == [class |-> obj.cls, state |-> [a \in DOMAIN obj \ {"cls"} |-> obj[a]]]

Build(p) ==
    [a \in DOMAIN p.state \cup {"cls"} |-> IF a = "cls" THEN p.class ELSE p.state[a]]

ReduceRecord(r) ==
    Reduce([r EXCEPT !.name = Reduce(@),
                     !.phones = [i \in 1..Len(@) |-> Reduce(@[i])],
                     !.birthday = Reduce(@)])

BuildRecord(p) ==
    [Build(p) EXCEPT !.name = Build(@),
                     !.phones = [i \in 1..Len(@) |-> Build(@[i])],
                     !.birthday = Build(@)]

pickle_dump(book) ==
    [class |-> "AddressBook",
     items |-> [i \in 1..Len(book) |-> [key |-> book[i].key, value |-> ReduceRecord(book[i].rec)]]]

RECURSIVE SetItems(_, _, _)
SetItems(d, items, i) ==
    IF i > Len(items) THEN d
    ELSE SetItems(DictSet(d, items[i].key, BuildRecord(items[i].value)), items, i + 1)

RECURSIVE Reversed(_)
Reversed(s) == IF s = <<>> THEN <<>> ELSE Append(Reversed(Tail(s)), Head(s))

LoadLastFirst(blob) == SetItems(<<>>, Reversed(blob.items), 1)

pickle_load(blob) == SetItems(<<>>, blob.items, 1)

save_data(book) == pickle_dump(book)

load_data(f) == IF f = NoFile THEN <<>> ELSE pickle_load(f)

(***************************************************************************)
(* State.                                                                  *)
(*   data    AddressBook.data                                              *)
(*   op      the last call: its name and its arguments                     *)
(*   ret     what the last call returned (None if it raised)               *)
(*   exc     the exception the last call raised, or NoExc                  *)
(*   today   datetime.today().date()                                       *)
(*   file    the contents of addressbook.pkl, or NoFile                    *)
(*   pc      where main() stands                                           *)
(***************************************************************************)
Call(name, args) == [name |-> name, args |-> args]

Monday == Date(2024, 6, 10)

(***************************************************************************)
(* SpecField: the field constructors and Field.__str__ applied to raw      *)
(* strings: up to MaxStrLen digits followed by up to MaxTail characters    *)
(* of any kind.                                                            *)
(***************************************************************************)
FieldChars == {"7", "x", "U+00B2"}

RawStrings == {Rep("7", k) \o t : k \in 0..MaxStrLen, t \in SeqsUpTo(FieldChars, MaxTail)}

InitField ==
    /\ op \in {Call("input", <<s>>) : s \in RawStrings}
    /\ ret = None
    /\ exc = NoExc
    /\ data = <<>>
    /\ today = Monday
    /\ file = NoFile
    /\ pc = "field"

NewPhone ==
    /\ op.name = "input"
    /\ LET r == Phone__init__(op.args[1])
       IN  /\ op' = Call("Phone", op.args)
           /\ ret' = r.val
           /\ exc' = r.exc
    /\ UNCHANGED <<data, today, file, pc>>

NewName ==
    /\ op.name = "input"
    /\ LET r == Name__init__(op.args[1])
       IN  /\ op' = Call("Name", op.args)
           /\ ret' = r.val
           /\ exc' = r.exc
    /\ UNCHANGED <<data, today, file, pc>>

\* str(field) on the field just constructed
StrField ==
    /\ op.name \in {"Phone", "Name"}
    /\ exc = NoExc
    /\ LET r == Field__str__(ret)
       IN  /\ op' = Call("str", <<op.args[1], op.name>>)
           /\ ret' = r.val
           /\ exc' = r.exc
    /\ UNCHANGED <<data, today, file, pc>>

NextField == NewPhone \/ NewName \/ StrField

SpecField == InitField /\ [][NextField]_vars

TenAsciiDigits(s) == Len(s) = PhoneLen /\ \A i \in 1..Len(s) : s[i] \in AsciiDigits

\* C2: a Phone is constructed from every s of 10 decimal digits, every s of
\* another length or with a non-digit is rejected with ValueError, and str() of
\* the constructed Phone returns s.
\* (A string is taken to contain a non-digit when one of its characters is no
\* digit of any script.)
C2_PhoneConstructsAndPrints ==
    /\ (op.name = "Phone" /\ TenAsciiDigits(op.args[1])) =>
         exc = NoExc /\ ret.cls = "Phone"
    /\ (op.name = "Phone" /\ (Len(op.args[1]) # PhoneLen \/ ~isdigit(op.args[1]))) =>
         exc.type = "ValueError"
    /\ (op.name = "str" /\ op.args[2] = "Phone") =>
         exc = NoExc /\ ret = PyStr(op.args[1])

(***************************************************************************)
(* Spec: a client calling the Record and AddressBook operations on one     *)
(* directory, in any order, with valid and invalid arguments.              *)
(***************************************************************************)
Names == {"Alice", "Bob"}

Ones == Rep("1", PhoneLen)

Twos == Rep("2", PhoneLen)

NineOnes == Rep("1", PhoneLen - 1)

PhoneArgs == {Ones, Twos, NineOnes}

June15 == Text(15, ".", 6, ".", 1990)

Feb29 == Text(29, ".", 2, ".", 2000)

Feb30 == Text(30, ".", 2, ".", 2024)

Slashes == Text(13, "/", 5, "/", 2024)

BirthdayArgs == {June15, Feb30}

Init ==
    /\ data = <<>>
    /\ op = Call("idle", <<>>)
    /\ ret = None
    /\ exc = NoExc
    /\ today = Monday
    /\ file = NoFile
    /\ pc = "api"

RECURSIVE PhonesFrom(_, _)
PhonesFrom(d, i) == IF i > Len(d) THEN 0 ELSE Len(d[i].rec.phones) + PhonesFrom(d, i + 1)

TotalPhones(d) == PhonesFrom(d, 1)

\* the client makes its next call once it is done with the last one's outcome
Idle == op.name = "idle"

\* the call came back as r = [exc, val, self]
Step(name, args, r) ==
    /\ op' = Call(name, args)
    /\ data' = r.self
    /\ ret' = r.val
    /\ exc' = r.exc
    /\ UNCHANGED <<today, file, pc>>

\* the client is done with the outcome of its last call
Forget ==
    /\ ~Idle
    /\ op' = Call("idle", <<>>)
    /\ ret' = None
    /\ exc' = NoExc
    /\ UNCHANGED <<data, today, file, pc>>

\* book.add_record(Record(name, *phones, birthday=birthday))
AddRecord ==
    /\ Idle
    /\ \E name \in Names, phones \in SeqsUpTo({Twos, NineOnes}, MaxNumbers),
          birthday \in {None, June15, Feb30} :
           LET record == Record__init__(name, phones, birthday)
               r == IF record.exc # NoExc THEN Fail(record.exc, data)
                    ELSE AddressBook_add_record(data, record.val)
           IN  /\ TotalPhones(r.self) <= MaxPhones
               /\ Step("add_record", <<name, phones, birthday>>, r)

DeleteRecord ==
    /\ Idle
    /\ \E name \in Names :
        Step("delete_record", <<name>>, AddressBook_delete_record(data, name))

AddPhone ==
    /\ Idle
    /\ TotalPhones(data) < MaxPhones
    /\ \E name \in Names, phone \in PhoneArgs :
        Step("add_phone", <<name, phone>>, AddressBook_add_phone(data, name, phone))

DeletePhone ==
    /\ Idle
    /\ \E name \in Names, phone \in PhoneArgs :
        Step("delete_phone", <<name, phone>>, AddressBook_delete_phone(data, name, phone))

ChangePhone ==
    /\ Idle
    /\ \E name \in Names, old_phone \in PhoneArgs, new_phone \in PhoneArgs :
        Step("change_phone", <<name, old_phone, new_phone>>,
             AddressBook_change_phone(data, name, old_phone, new_phone))

AddBirthday ==
    /\ Idle
    /\ \E name \in Names, birthday \in BirthdayArgs :
        Step("add_birthday", <<name, birthday>>,
             AddressBook_add_birthday(data, name, birthday))

Next ==
    \/ AddRecord
    \/ DeleteRecord
    \/ AddPhone
    \/ DeletePhone
    \/ ChangePhone
    \/ AddBirthday
    \/ Forget

Spec == Init /\ [][Next]_vars

(***************************************************************************)
(* Properties of Spec.  An action property reads the directory before the  *)
(* call in data and the call and its outcome in op', exc', data'.          *)
(***************************************************************************)
Numbers(record) == [i \in 1..Len(record.phones) |-> record.phones[i].number]

Called(name) == op'.name = name

\* every record but the one under name is as it was, in the same place
OthersUnchanged(name) ==
    /\ \A k \in Keys(data) \ {name} : k \in Keys(data') /\ DictGet(data', k) = DictGet(data, k)
    /\ Keys(data') \subseteq Keys(data) \cup {name}
    /\ \A i \in 1..Len(data) : i <= Len(data') /\ data'[i].key = data[i].key

\* C1: every phone stored in every record is a string of 10 decimal digits.
C1_StoredPhonesAreTenDigits ==
    \A i \in 1..Len(data) : \A j \in 1..Len(data[i].rec.phones) :
        TenAsciiDigits(data[i].rec.phones[j].number)

\* C5: change_phone / edit_phone replaces the first phone equal to old by new,
\* in place, and leaves the length, every other phone (later duplicates of old
\* too) and every other record as they were; if no phone equals old it raises
\* the not-found ValueError and changes nothing.
C5_EditFirstMatchOnly ==
    [][(Called("change_phone") /\ op'.args[1] \in Keys(data)) =>
        LET name == op'.args[1]
            old == op'.args[2]
            new == op'.args[3]
            before == Numbers(DictGet(data, name))
            hits == {i \in 1..Len(before) : before[i] = old}
        IN  IF hits = {}
            THEN exc' = ValueError("Phone not found for contact.") /\ data' = data
            ELSE /\ exc' = NoExc
                 /\ name \in Keys(data')
                 /\ LET after == Numbers(DictGet(data', name))
                    IN  /\ Len(after) = Len(before)
                        /\ \A i \in 1..Len(before) :
                             after[i] = IF i \in hits /\ \A j \in hits : i <= j
                                        THEN new ELSE before[i]
                 /\ DictGet(data', name).birthday = DictGet(data, name).birthday
                 /\ OthersUnchanged(name)]_vars

\* C5's case: an edit that left a later duplicate of old in place
C5_Witness ==
    /\ op.name = "change_phone"
    /\ exc = NoExc
    /\ op.args[2] # op.args[3]
    /\ LET after == Numbers(DictGet(data, op.args[1]))
       IN  /\ Len(after) = 3
           /\ after[1] = op.args[3]
           /\ after[3] = op.args[2]

\* C6: add_phone(name, raw) with a valid raw creates, for an absent name, a
\* record holding exactly [raw] and no birthday; for a present name it appends
\* raw to the record's phones (duplicates kept) and keeps its birthday; every
\* other record is unchanged.
C6_AddPhoneUpserts ==
    [][(Called("add_phone") /\ TenAsciiDigits(op'.args[2])) =>
        LET name == op'.args[1]
            raw == op'.args[2]
        IN  /\ exc' = NoExc
            /\ name \in Keys(data')
            /\ OthersUnchanged(name)
            /\ IF name \in Keys(data)
               THEN /\ Numbers(DictGet(data', name)) = Append(Numbers(DictGet(data, name)), raw)
                    /\ DictGet(data', name).birthday = DictGet(data, name).birthday
               ELSE /\ Numbers(DictGet(data', name)) = <<raw>>
                    /\ DictGet(data', name).birthday = None
                    /\ data'[Len(data')].key = name]_vars

\* C6's case: a number appended a second time to a record with a birthday,
\* next to another record
C6_Witness ==
    /\ op.name = "add_phone"
    /\ exc = NoExc
    /\ Len(data) = 2
    /\ LET record == DictGet(data, op.args[1])
       IN  /\ record.birthday # None
           /\ Numbers(record) = <<op.args[2], op.args[2]>>

RECURSIVE Without(_, _)
Without(s, x) ==
    IF s = <<>> THEN <<>>
    ELSE IF Head(s) = x THEN Without(Tail(s), x)
    ELSE <<Head(s)>> \o Without(Tail(s), x)

\* C9: delete_record of an absent name raises KeyError and changes nothing;
\* delete_phone of an absent name raises KeyError and changes nothing;
\* delete_phone of a present name raises nothing, removes every phone equal to
\* raw, keeps the others in order (all of them when none equals raw), and keeps
\* the birthday and the other records.
C9_DeleteErrorsAndNoOps ==
    [][/\ (Called("delete_record") /\ op'.args[1] \notin Keys(data)) =>
            exc'.type = "KeyError" /\ data' = data
       /\ (Called("delete_phone") /\ op'.args[1] \notin Keys(data)) =>
            exc'.type = "KeyError" /\ data' = data
       /\ (Called("delete_phone") /\ op'.args[1] \in Keys(data)) =>
            LET name == op'.args[1]
                before == DictGet(data, name)
            IN  /\ exc' = NoExc
                /\ name \in Keys(data')
                /\ Numbers(DictGet(data', name)) = Without(Numbers(before), op'.args[2])
                /\ DictGet(data', name).birthday = before.birthday
                /\ OthersUnchanged(name)
                /\ (\A i \in 1..Len(before.phones) : before.phones[i].number # op'.args[2])
                      => data' = data]_vars

\* C9's case: delete_phone on a present record went through, no phone of the
\* record equals raw, and two different phones stand in the record
C9_Witness ==
    /\ op.name = "delete_phone"
    /\ exc = NoExc
    /\ Len(data) = 2
    /\ LET record == DictGet(data, op.args[1])
       IN  /\ Len(record.phones) = 2
           /\ record.phones[1].number # record.phones[2].number
           /\ record.birthday # None

\* C10: a call that raises leaves the directory as it was.
C10_FailedCallsChangeNothing ==
    [][(op'.name # "idle" /\ exc' # NoExc) => data' = data]_vars

\* C10's case: an add of two numbers, the second one invalid, for a name whose
\* record is still there with its own phone
C10_Witness ==
    /\ op.name = "add_record"
    /\ exc.type = "ValueError"
    /\ op.args[1] \in Keys(data)
    /\ Len(op.args[2]) = 2
    /\ TenAsciiDigits(op.args[2][1])
    /\ ~TenAsciiDigits(op.args[2][2])
    /\ Numbers(DictGet(data, op.args[1])) = <<Ones>>

(***************************************************************************)
(* SpecBirthdays: get_upcoming_birthdays applied to directories of up to   *)
(* MaxRecords records, each with a valid birthday or none, on several      *)
(* days of leap and common years.                                          *)
(***************************************************************************)
DefaultDays == 7

ReportNames == {"Alice", "Bob", "Carol"}

\* lines 22-28 accept each of these: real calendar dates in DD.MM.YYYY
ValidBirthdays ==
    { Text(8, ".", 6, ".", 1990), Text(10, ".", 6, ".", 1985), June15,
      Text(16, ".", 6, ".", 2001), Text(17, ".", 6, ".", 1970), Text(18, ".", 6, ".", 1999),
      Text(1, ".", 1, ".", 1990), Feb29 }

Todays ==
    { Monday, Date(2023, 12, 28), Date(2023, 2, 25), Date(2024, 2, 27),
      Date(2024, 3, 1), Date(2024, 6, 9) }

RECURSIVE Directories(_)
Directories(n) ==
    IF n = 0 THEN {<<>>}
    ELSE LET smaller == Directories(n - 1)
         IN  smaller \cup
             { AddressBook_add_record(d, Record__init__(name, <<>>, b).val).self :
                 d \in smaller, name \in ReportNames, b \in ValidBirthdays \cup {None} }

InitBirthdays ==
    /\ data \in Directories(MaxRecords)
    /\ today \in Todays
    /\ op = Call("idle", <<>>)
    /\ ret = None
    /\ exc = NoExc
    /\ file = NoFile
    /\ pc = "report"

UpcomingBirthdays ==
    /\ Idle
    /\ \E days \in {0, DefaultDays} :
         LET r == get_upcoming_birthdays(data, days, today)
         IN  /\ op' = Call("get_upcoming_birthdays", <<days>>)
             /\ ret' = r.val
             /\ exc' = r.exc
    /\ UNCHANGED <<data, today, file, pc>>

NextBirthdays == UpcomingBirthdays \/ Forget

SpecBirthdays == InitBirthdays /\ [][NextBirthdays]_vars

\* C3: get_upcoming_birthdays never raises: for every directory of valid
\* birthdays (29 February too) and every today it returns a list.
C3_UpcomingNeverRaises ==
    op.name = "get_upcoming_birthdays" => exc = NoExc /\ ret.cls = "list"

\* the next occurrence of a birthday on or after the day now: its month and day
\* in this year, or in the following year if that is before now; none when the
\* year in question has no such day
Occurs(b, y) == b.day <= DaysInMonth(y, b.month)

NextOccurrence(b, now) ==
    IF Occurs(b, now.year) /\ toordinal(Date(now.year, b.month, b.day)) >= toordinal(now)
    THEN <<Date(now.year, b.month, b.day)>>
    ELSE IF Occurs(b, now.year + 1) THEN <<Date(now.year + 1, b.month, b.day)>>
    ELSE <<>>

Congratulation(d) ==
    IF weekday(d) = 5 THEN AddDays(d, 2) ELSE IF weekday(d) = 6 THEN AddDays(d, 1) ELSE d

RECURSIVE Expected(_, _, _)
Expected(book, days, now) ==
    IF book = <<>> THEN <<>>
    ELSE LET record == Head(book).rec
             next == IF record.birthday = None THEN <<>>
                     ELSE NextOccurrence(record.birthday.date, now)
             due == next # <<>> /\ toordinal(next[1]) - toordinal(now) \in 0..days
         IN  (IF due
              THEN <<[name |-> Head(book).key,
                      congratulation_date |->
                          Text(Congratulation(next[1]).year, ".", Congratulation(next[1]).month,
                               ".", Congratulation(next[1]).day)]>>
              ELSE <<>>) \o Expected(Tail(book), days, now)

\* C7: for every directory and every today the call returns, in insertion
\* order, one entry for each record whose birthday next occurs 0..days days
\* from today, dated that occurrence moved from Saturday or Sunday to the
\* following Monday, and nothing else; no date returned is on a weekend.
C7_UpcomingIsTheWindow ==
    op.name = "get_upcoming_birthdays" =>
        /\ exc = NoExc
        /\ ret = PyList(Expected(data, op.args[1], today))
        /\ \A i \in 1..Len(ret.v) :
             LET t == ret.v[i].congratulation_date.v
             IN  weekday(Date(t[1], t[3], t[5])) \notin {5, 6}

(***************************************************************************)
(* SpecPersist: save_data and load_data applied to directories the core    *)
(* operations build: up to MaxRecords records of up to MaxNumbers phones,  *)
(* with or without a birthday, one of them with a number edit_phone put    *)
(* there unvalidated.                                                      *)
(***************************************************************************)
PyBook(d) == [cls |-> "AddressBook", data |-> d]

SavedRecords(name) ==
    { Record__init__(name, phones, b).val :
        phones \in SeqsUpTo({Ones, Twos}, MaxNumbers), b \in {None, Feb29} }
    \cup { Record_edit_phone(Record__init__(name, <<Twos, Ones>>, June15).val, Ones, NineOnes).self }

RECURSIVE SavedDirectories(_)
SavedDirectories(n) ==
    IF n = 0 THEN {<<>>}
    ELSE LET smaller == SavedDirectories(n - 1)
         IN  smaller \cup
             { AddressBook_add_record(d, r).self :
                 d \in smaller, r \in UNION {SavedRecords(name) : name \in ReportNames} }

InitPersist ==
    /\ data \in SavedDirectories(MaxRecords)
    /\ file = NoFile
    /\ op = Call("idle", <<>>)
    /\ ret = None
    /\ exc = NoExc
    /\ today = Monday
    /\ pc = "persist"

SaveData ==
    /\ Idle
    /\ file' = save_data(data)
    /\ op' = Call("save_data", <<>>)
    /\ ret' = None
    /\ exc' = NoExc
    /\ UNCHANGED <<data, today, pc>>

\* load_data returns a new AddressBook; the one in hand stays as it is
LoadData ==
    /\ Idle
    /\ op' = Call("load_data", <<>>)
    /\ ret' = PyBook(load_data(file))
    /\ exc' = NoExc
    /\ UNCHANGED <<data, file, today, pc>>

NextPersist == SaveData \/ LoadData \/ Forget

SpecPersist == InitPersist /\ [][NextPersist]_vars

\* C8: load_data of the blob save_data wrote for a directory returns a
\* directory with the same names in the same order, the same phones in the same
\* order and the same birthday text and date; load_data of a missing file
\* returns an empty directory.
C8_LoadOfSaveIsTheDirectory ==
    op.name = "load_data" =>
        IF file = NoFile THEN ret = PyBook(<<>>)
        ELSE /\ Len(ret.data) = Len(data)
             /\ \A i \in 1..Len(data) :
                  LET was == data[i].rec
                      is == ret.data[i].rec
                  IN  /\ ret.data[i].key = data[i].key
                      /\ is.name.name = was.name.name
                      /\ Numbers(is) = Numbers(was)
                      /\ is.birthday = was.birthday

\* C8's case: a directory of two records, one with two phones and a birthday,
\* came back from the file
C8_Witness ==
    /\ op.name = "load_data"
    /\ file # NoFile
    /\ Len(ret.data) = 2
    /\ \E i \in 1..2 : Len(ret.data[i].rec.phones) = 2 /\ ret.data[i].rec.birthday # None

(***************************************************************************)
(* SpecMain: main().  pc is "start" before load_data, "input" at the       *)
(* prompt (line 196), "ran" when the command's branch has finished,        *)
(* "done" after close / exit and "aborted" when an exception left main.    *)
(* A command line is modelled after parse_input: the command word and its  *)
(* arguments.  ret is the message printed.                                 *)
(***************************************************************************)
Printed(m) == [cls |-> "printed", v |-> m]

\* the wrapper of lines 100-106 around a handler's outcome r
input_error(r) ==
    IF r.exc.type \in {"KeyError", "ValueError", "IndexError"}
    THEN [exc |-> NoExc, val |-> Printed("Input error"), self |-> r.self]
    ELSE r

\* lines 108-112
add_contact(address_book, name, numbers) ==
    LET record == Record__init__(name, numbers, None)
    IN  input_error(IF record.exc # NoExc THEN Fail(record.exc, address_book)
                    ELSE [AddressBook_add_record(address_book, record.val)
                            EXCEPT !.val = Printed("Contact added successfully.")])

\* lines 114-117
change_contact(address_book, name, old_number, new_number) ==
    LET r == AddressBook_change_phone(address_book, name, old_number, new_number)
    IN  input_error(IF r.exc # NoExc THEN r ELSE [r EXCEPT !.val = Printed("Number changed.")])

\* lines 135-138
add_contact_birthday(address_book, name, birthday) ==
    LET r == AddressBook_add_birthday(address_book, name, birthday)
    IN  input_error(IF r.exc # NoExc THEN r ELSE [r EXCEPT !.val = Printed("Birthday added.")])

\* lines 119-125
show_phone(address_book, name) ==
    input_error([Done(address_book) EXCEPT !.val =
        IF AddressBook_find_record(address_book, name) # None
        THEN Printed("The phone number(s)") ELSE Printed("No phone number found")])

\* lines 127-133
show_all_contacts(address_book) ==
    input_error([Done(address_book) EXCEPT !.val = Printed("All contacts")])

\* lines 140-146
show_birthday(address_book, name) ==
    LET record == AddressBook_find_record(address_book, name)
    IN  input_error([Done(address_book) EXCEPT !.val =
            IF record # None /\ record.birthday # None
            THEN Printed("The birthday") ELSE Printed("No birthday found")])

\* lines 242-249: the report is called without the wrapper
birthdays(address_book, now) ==
    LET upcoming_birthdays == get_upcoming_birthdays(address_book, DefaultDays, now)
    IN  IF upcoming_birthdays.exc # NoExc THEN Fail(upcoming_birthdays.exc, address_book)
        ELSE [Done(address_book) EXCEPT !.val =
                IF upcoming_birthdays.val.v # <<>>
                THEN Printed("Upcoming birthdays") ELSE Printed("No upcoming birthdays")]

\* the file an earlier session may have left
EarlierFile == save_data(AddressBook_add_record(<<>>, Record__init__("Bob", <<Ones>>, None).val).self)

InitMain ==
    /\ pc = "start"
    /\ data = <<>>
    /\ file \in {NoFile, EarlierFile}
    /\ today \in {Monday, Date(2023, 2, 25)}
    /\ op = Call("idle", <<>>)
    /\ ret = None
    /\ exc = NoExc

\* line 194
Start ==
    /\ pc = "start"
    /\ data' = load_data(file)
    /\ pc' = "input"
    /\ UNCHANGED <<op, ret, exc, today, file>>

\* a command's branch came back as r: an exception that reaches main ends the
\* process
Ran(cmd, args, r) ==
    /\ op' = Call(cmd, args)
    /\ data' = r.self
    /\ ret' = r.val
    /\ exc' = r.exc
    /\ pc' = IF r.exc # NoExc THEN "aborted" ELSE "ran"
    /\ UNCHANGED <<today, file>>

WrongArguments(cmd, args) ==
    Ran(cmd, args, [Done(data) EXCEPT !.val = Printed("Invalid number of arguments")])

\* lines 198-201; open() may fail, which nothing catches
Close ==
    /\ pc = "input"
    /\ \E cmd \in {"close", "exit"} :
         \/ /\ file' = save_data(data)
            /\ pc' = "done"
            /\ op' = Call(cmd, <<>>)
            /\ ret' = Printed("Good bye!")
            /\ exc' = NoExc
            /\ UNCHANGED <<data, today>>
         \/ /\ pc' = "aborted"
            /\ op' = Call(cmd, <<>>)
            /\ ret' = None
            /\ exc' = [type |-> "OSError", msg |-> "open failed"]
            /\ UNCHANGED <<data, today, file>>

Hello ==
    /\ pc = "input"
    /\ Ran("hello", <<>>, [Done(data) EXCEPT !.val = Printed("How can I help you?")])

\* any other word, and close / exit followed by arguments
Unknown ==
    /\ pc = "input"
    /\ \E line \in {Call("close", <<"now">>), Call("delete", <<"Alice">>), Call("", <<>>)} :
         Ran(line.name, line.args, [Done(data) EXCEPT !.val = Printed("Invalid command.")])

Add ==
    /\ pc = "input"
    /\ \E name \in Names, numbers \in SeqsUpTo({Ones, NineOnes}, MaxNumbers) :
         IF Len(numbers) >= 1
         THEN Ran("add", <<name, numbers>>, add_contact(data, name, numbers))
         ELSE WrongArguments("add", <<name, numbers>>)

Change ==
    /\ pc = "input"
    /\ \E name \in Names, old_number \in {Ones, NineOnes}, new_number \in PhoneArgs :
         Ran("change", <<name, old_number, new_number>>,
             change_contact(data, name, old_number, new_number))

ChangeWrongArguments ==
    /\ pc = "input"
    /\ \E name \in Names : WrongArguments("change", <<name>>)

Phone ==
    /\ pc = "input"
    /\ \/ \E name \in Names : Ran("phone", <<name>>, show_phone(data, name))
       \/ WrongArguments("phone", <<>>)

All ==
    /\ pc = "input"
    /\ Ran("all", <<>>, show_all_contacts(data))

AddBirthdayCommand ==
    /\ pc = "input"
    /\ \/ \E name \in Names, birthday \in {Feb29, Feb30, Slashes} :
            Ran("add-birthday", <<name, birthday>>, add_contact_birthday(data, name, birthday))
       \/ \E name \in Names : WrongArguments("add-birthday", <<name>>)

ShowBirthday ==
    /\ pc = "input"
    /\ \/ \E name \in Names : Ran("show-birthday", <<name>>, show_birthday(data, name))
       \/ WrongArguments("show-birthday", <<>>)

Birthdays ==
    /\ pc = "input"
    /\ Ran("birthdays", <<>>, birthdays(data, today))

\* the while loop comes round to the prompt
Prompt ==
    /\ pc = "ran"
    /\ pc' = "input"
    /\ op' = Call("idle", <<>>)
    /\ ret' = None
    /\ exc' = NoExc
    /\ UNCHANGED <<data, today, file>>

NextMain ==
    \/ Start
    \/ Close
    \/ Hello
    \/ Unknown
    \/ Add
    \/ Change
    \/ ChangeWrongArguments
    \/ Phone
    \/ All
    \/ AddBirthdayCommand
    \/ ShowBirthday
    \/ Birthdays
    \/ Prompt

SpecMain == InitMain /\ [][NextMain]_vars

\* C4: no command but close / exit ends the session: the loop is left only by
\* close / exit, and the process is aborted only by a failure of the
\* persistence I/O.
C4_OnlyQuitOrIOFailureEndsTheSession ==
    /\ pc = "done" => op.name \in {"close", "exit"}
    /\ pc = "aborted" => op.name \in {"close", "exit"} /\ exc.type = "OSError"

====
